---- MODULE Spec2Model ----
(***************************************************************************)
(* A model of src/main.js: a WebGL2 deferred-rendering demo.               *)
(*                                                                         *)
(* The WebGL context is a record `gl` holding the part of the context      *)
(* state the program touches (bindings, created handles, a log of delete   *)
(* calls and of the draw calls of the current frame).  Every gl.* call of   *)
(* the source is an operator from context state to context state, and the  *)
(* functions of the source are compositions of these, in source order.     *)
(* Lengths are integers in hundredths of a unit (1.8 is 180).              *)
(***************************************************************************)
EXTENDS Integers, Sequences, FiniteSets, TLC

\* ---------------------------------------------------------------- bounds

\* Mesh builders are explored for half_extent in -MaxExtent..MaxExtent.
MaxExtent == 5
\* Math.random() * 0.32 is drawn from 0..MaxRandom.
MaxRandom == 2
\* requestAnimationFrame handles are 1..MaxHandle, reused cyclically.
MaxHandle == 3
\* The beforeunload event is dispatched at most MaxUnload times.
MaxUnload == 2
\* Framebuffers other than the G-buffer that a caller of capture may have bound.
MaxOther == 2
\* Steps (draws or rebinds) of a callback handed to capture.
MaxCbSteps == 3

\* ------------------------------------------------------ program constants

width == 640
height == 480
FloorExtent == 180
BoxExtent == 40
RandomBoxes == 6

VARIABLES
  pc,               \* position of the program: "start", "idle", or a step of loop()
  gl,               \* the WebGL2 context state
  objects,          \* the objects array of window.onload
  objIdx,           \* position of objects.forEach inside renderGeometry
  viewIdx,          \* position inside the composite part of render()
  request,          \* the `request` variable (0 is null)
  pendingCallbacks, \* animation-frame callbacks registered with the host
  lastHandle,       \* the last handle requestAnimationFrame returned
  onbeforeunload,   \* window.onbeforeunload: "null" or "handler"
  errorLog,         \* number of console.error calls
  uncaught,         \* an exception left loop()
  unloadEvents,     \* beforeunload events dispatched so far
  teardownRuns,     \* times the body of the beforeunload handler ran
  prevBound,        \* draw target bound when capture was called
  cbSteps,          \* steps the callback of a capture call has made
  half_extent,      \* argument of a mesh builder
  mesh,             \* the mesh a builder returned
  built,            \* which builder returned it: "none", "box", "floor"
  tri               \* triangles of `mesh` assembled so far

mainVars == <<pc, gl, objects, objIdx, viewIdx, request, pendingCallbacks, lastHandle,
              onbeforeunload, errorLog, uncaught, unloadEvents, teardownRuns>>
capVars == <<prevBound, cbSteps>>
meshVars == <<half_extent, mesh, built, tri>>
vars == <<mainVars, capVars, meshVars>>

\* ------------------------------------------------------------ mesh builders

PosBoxMesh(s) ==
  LET points == << <<-s, s, s>>, <<-s, -s, s>>, <<s, s, s>>, <<s, -s, s>>,
                   <<-s, s, -s>>, <<-s, -s, -s>>, <<s, s, -s>>, <<s, -s, -s>> >>
      p(i) == points[i + 1]
  IN  \* front
      p(0) \o p(1) \o p(2) \o p(2) \o p(1) \o p(3) \o
      \* left
      p(4) \o p(5) \o p(0) \o p(0) \o p(5) \o p(1) \o
      \* back
      p(6) \o p(7) \o p(4) \o p(4) \o p(7) \o p(5) \o
      \* right
      p(2) \o p(3) \o p(6) \o p(6) \o p(3) \o p(7) \o
      \* top
      p(4) \o p(0) \o p(6) \o p(6) \o p(0) \o p(2) \o
      \* bottom
      p(1) \o p(5) \o p(3) \o p(3) \o p(5) \o p(7)

\* Six copies of one triplet: the per-face rows of normals and colors.
Face(v) == v \o v \o v \o v \o v \o v

NormalsBoxMesh ==
  LET normals == << <<0, 0, 1>>, <<-1, 0, 0>>, <<0, 0, -1>>,
                    <<1, 0, 0>>, <<0, 1, 0>>, <<0, -1, 0>> >>
      n(i) == normals[i + 1]
  IN  Face(n(0)) \o Face(n(1)) \o Face(n(2)) \o Face(n(3)) \o Face(n(4)) \o Face(n(5))

ColorsBoxMesh ==
  LET colors == << <<1, 0, 0>>, <<0, 1, 0>>, <<0, 0, 1>>,
                   <<1, 1, 0>>, <<0, 1, 1>>, <<1, 0, 1>> >>
      c(i) == colors[i + 1]
  IN  Face(c(0)) \o Face(c(1)) \o Face(c(2)) \o Face(c(3)) \o Face(c(4)) \o Face(c(5))

createBoxMesh(s) ==
  [ positions |-> PosBoxMesh(s),
    normals   |-> NormalsBoxMesh,
    colors    |-> ColorsBoxMesh,
    indices   |-> << 0, 1, 2, 3, 4, 5,
                     6, 7, 8, 9, 10, 11,
                     12, 13, 14, 15, 16, 17,
                     18, 19, 20, 21, 22, 23,
                     24, 25, 26, 27, 28, 29,
                     30, 31, 32, 33, 34, 35 >> ]

createFloorMesh_flipped(s) ==
  [ positions |-> << -s, 0, -s,   -s, 0, s,   s, 0, -s,   s, 0, s >>,
    colors    |-> << 1, 0, 0,   0, 1, 0,   0, 0, 1,   1, 1, 0 >>,
    normals   |-> << 0, 1, 0,   0, 1, 0,   0, 1, 0,   0, 1, 0 >>,
    indices   |-> << 0, 1, 2, 1, 2, 3 >> ]

createFloorMesh_index4(s) ==
  [ positions |-> << -s, 0, -s,   -s, 0, s,   s, 0, -s,   s, 0, s >>,
    colors    |-> << 1, 0, 0,   0, 1, 0,   0, 0, 1,   1, 1, 0 >>,
    normals   |-> << 0, 1, 0,   0, 1, 0,   0, 1, 0,   0, 1, 0 >>,
    indices   |-> << 0, 1, 2, 4, 2, 1 >> ]

createFloorMesh(s) ==
  [ positions |-> << -s, 0, -s,   -s, 0, s,   s, 0, -s,   s, 0, s >>,
    colors    |-> << 1, 0, 0,   0, 1, 0,   0, 0, 1,   1, 1, 0 >>,
    normals   |-> << 0, 1, 0,   0, 1, 0,   0, 1, 0,   0, 1, 0 >>,
    indices   |-> << 0, 1, 2, 3, 2, 1 >> ]

NoMesh == [ positions |-> <<>>, normals |-> <<>>, colors |-> <<>>, indices |-> <<>> ]

\* ---- reading a mesh the way an indexed TRIANGLES draw does

\* The k-th (0-based) triplet of a flat attribute array.
Triplet(flat, k) == << flat[3 * k + 1], flat[3 * k + 2], flat[3 * k + 3] >>

\* Number of whole triangles gl.TRIANGLES assembles from the index array.
NumTriangles(m) == Len(m.indices) \div 3

\* The three vertex indices of triangle t (1-based), in index order.
TriangleIndices(m, t) == << m.indices[3 * t - 2], m.indices[3 * t - 1], m.indices[3 * t] >>

Sub(a, b) == << a[1] - b[1], a[2] - b[2], a[3] - b[3] >>
Add(a, b) == << a[1] + b[1], a[2] + b[2], a[3] + b[3] >>
Dot(a, b) == a[1] * b[1] + a[2] * b[2] + a[3] * b[3]
Cross(a, b) == << a[2] * b[3] - a[3] * b[2],
                  a[3] * b[1] - a[1] * b[3],
                  a[1] * b[2] - a[2] * b[1] >>

\* e1 x e2 of the triangle's vertices in index order: it faces the side from
\* which the triangle is counter-clockwise, the front face under gl.CULL_FACE.
WindingNormal(m, t) ==
  LET i  == TriangleIndices(m, t)
      v0 == Triplet(m.positions, i[1])
      v1 == Triplet(m.positions, i[2])
      v2 == Triplet(m.positions, i[3])
  IN  Cross(Sub(v1, v0), Sub(v2, v0))

\* Sum of the triangle's three vertices: three times its centroid.
Centroid3(m, t) ==
  LET i == TriangleIndices(m, t)
  IN  Add(Add(Triplet(m.positions, i[1]), Triplet(m.positions, i[2])),
          Triplet(m.positions, i[3]))

\* ------------------------------------------------------------ GPU handles

\* A handle the context hands out.  owner is the RenderObject (1..8) or the
\* program (1, 2) it belongs to, 0 otherwise.
H(kind, owner, slot) == [kind |-> kind, owner |-> owner, slot |-> slot]

\* JavaScript null, as a binding.
NullHandle == H("null", 0, "null")

program == H("program", 1, "program")
program2 == H("program", 2, "program")

\* The object createFramebuffer returns (its capture and destroy are below).
fb ==
  [ framebuffer |-> H("framebuffer", 0, "framebuffer"),
    diffuseBuf  |-> H("texture", 0, "diffuseBuf"),
    normalBuf   |-> H("texture", 0, "normalBuf"),
    positionBuf |-> H("texture", 0, "positionBuf"),
    depthBuf    |-> H("texture", 0, "depthBuf") ]

\* Framebuffers of some other owner, which may be bound when capture is called.
OtherFramebuffers == { H("framebuffer", k, "other") : k \in 1..MaxOther }

\* ------------------------------------------------------ the WebGL2 context

\* The context right after canvas.getContext('webgl2').
NewContext ==
  [ created       |-> {},
    deleteCalls   |-> << >>,
    framebuffer   |-> NullHandle,
    drawBuffers   |-> (NullHandle :> {"BACK"}),
    attachments   |-> (NullHandle :> {}),
    vertexArray   |-> NullHandle,
    arrayBuffer   |-> NullHandle,
    elementBuffer |-> NullHandle,
    texture       |-> NullHandle,
    program       |-> NullHandle,
    attached      |-> {},
    linked        |-> {},
    viewport      |-> <<0, 0, width, height>>,
    enabled       |-> {},
    dataStore     |-> << >>,
    attribEnabled |-> << >>,
    attribPointer |-> << >>,
    attrib2       |-> <<0, 0, 0>>,
    texImage      |-> {},
    uIsSingleChannel |-> FALSE,
    uUseLinear    |-> FALSE,
    calls         |-> << >> ]

\* gl.create*: a new handle, not yet deleted.
createHandle(g, h) ==
  [g EXCEPT !.created = @ \cup {h}, !.deleteCalls = (h :> 0) @@ @]

createBuffer(g, h) == createHandle(g, h)
createTexture(g, h) == createHandle(g, h)
createShader(g, h) == createHandle(g, h)
glCreateProgram(g, h) == createHandle(g, h)

createVertexArray(g, h) ==
  [createHandle(g, h) EXCEPT !.attribEnabled = (h :> {}) @@ @,
                             !.attribPointer = (h :> << >>) @@ @]

glCreateFramebuffer(g, h) ==
  [createHandle(g, h) EXCEPT !.drawBuffers = (h :> {0}) @@ @,
                             !.attachments = (h :> {}) @@ @]

bindVertexArray(g, h) == [g EXCEPT !.vertexArray = h]
bindFramebuffer(g, h) == [g EXCEPT !.framebuffer = h]
bindTexture(g, h) == [g EXCEPT !.texture = h]
useProgram(g, h) == [g EXCEPT !.program = h]
viewport(g, x, y, w, h) == [g EXCEPT !.viewport = <<x, y, w, h>>]
enable(g, cap) == [g EXCEPT !.enabled = @ \cup {cap}]

bindBuffer(g, target, h) ==
  IF target = "ARRAY_BUFFER" THEN [g EXCEPT !.arrayBuffer = h]
  ELSE [g EXCEPT !.elementBuffer = h]

\* The element of a one-element set.  Calls that read a binding of the context
\* they change are written  TheValue({ [x EXCEPT ...] : x \in {g} })  which is
\* [g EXCEPT ...] with g evaluated once.
TheValue(S) == CHOOSE v \in S : TRUE

\* gl.bufferData: gives the buffer bound to target a data store of `size` elements.
bufferData(g, target, size) ==
  TheValue({ [x EXCEPT !.dataStore =
                (IF target = "ARRAY_BUFFER" THEN x.arrayBuffer ELSE x.elementBuffer)
                  :> size @@ @] : x \in {g} })

\* Vertex attribute arrays are state of the bound vertex array object.
enableVertexAttribArray(g, loc) ==
  TheValue({ [x EXCEPT !.attribEnabled[x.vertexArray] = @ \cup {loc}] : x \in {g} })
disableVertexAttribArray(g, loc) ==
  TheValue({ [x EXCEPT !.attribEnabled[x.vertexArray] = @ \ {loc}] : x \in {g} })
vertexAttribPointer(g, loc) ==
  TheValue({ [x EXCEPT !.attribPointer[x.vertexArray] = (loc :> x.arrayBuffer) @@ @]
             : x \in {g} })
\* The constant value of attribute 2, used while its array is disabled.
vertexAttrib3fv(g, loc, v) == [g EXCEPT !.attrib2 = v]

texImage2D(g) ==
  TheValue({ [x EXCEPT !.texImage = @ \cup {x.texture}] : x \in {g} })
framebufferTexture2D(g, tex) ==
  TheValue({ [x EXCEPT !.attachments[x.framebuffer] = @ \cup {tex}] : x \in {g} })

\* gl.drawBuffers sets the draw buffers of the bound framebuffer.
drawBuffers(g, bufs) ==
  TheValue({ [x EXCEPT !.drawBuffers[x.framebuffer] = bufs] : x \in {g} })

attachShader(g, p, s) == [g EXCEPT !.attached = @ \cup {<<p, s>>}]
detachShader(g, p, s) == [g EXCEPT !.attached = @ \ {<<p, s>>}]
linkProgram(g, p) == [g EXCEPT !.linked = @ \cup {p}]

\* gl.delete*: one more delete call on the handle; a deleted object that is
\* bound is unbound (a program in use stays the current program).
deleteHandle(g, h) == [g EXCEPT !.deleteCalls[h] = @ + 1]
deleteShader(g, h) == deleteHandle(g, h)
deleteProgram(g, h) == deleteHandle(g, h)
deleteBuffer(g, h) ==
  [deleteHandle(g, h) EXCEPT !.arrayBuffer = IF @ = h THEN NullHandle ELSE @,
                             !.elementBuffer = IF @ = h THEN NullHandle ELSE @]
deleteVertexArray(g, h) ==
  [deleteHandle(g, h) EXCEPT !.vertexArray = IF @ = h THEN NullHandle ELSE @]
deleteFramebuffer(g, h) ==
  [deleteHandle(g, h) EXCEPT !.framebuffer = IF @ = h THEN NullHandle ELSE @]
deleteTexture(g, h) ==
  [deleteHandle(g, h) EXCEPT !.texture = IF @ = h THEN NullHandle ELSE @]

\* One entry of the frame's call log: the call and the state it ran in.
Call(g, name, count) ==
  [ call        |-> name,
    count       |-> count,
    framebuffer |-> g.framebuffer,
    drawBuffers |-> g.drawBuffers[g.framebuffer],
    texture     |-> g.texture,
    vertexArray |-> g.vertexArray,
    program     |-> g.program,
    viewport    |-> g.viewport,
    single      |-> g.uIsSingleChannel,
    linear      |-> g.uUseLinear ]

\* The context with the call appended to its log.
Logged(g, name, count) ==
  TheValue({ [x EXCEPT !.calls = Append(@, Call(x, name, count))] : x \in {g} })

clear(g) == Logged(g, "clear", 0)
drawElements(g, count) == Logged(g, "drawElements", count)
drawArrays(g, count) == Logged(g, "drawArrays", count)

\* ------------------------------------------------------- shader programs

\* createProgram(gl, vsSource, fsSource), for the n-th program.
createProgram(g, n) ==
  LET p  == H("program", n, "program")
      vs == H("shader", n, "vs")
      fs == H("shader", n, "fs")
      g1 == glCreateProgram(g, p)
      g2 == createShader(g1, vs)
      g3 == createShader(g2, fs)
      g4 == attachShader(attachShader(g3, p, vs), p, fs)
      g5 == linkProgram(g4, p)
      g6 == detachShader(detachShader(g5, p, vs), p, fs)
  IN  deleteShader(deleteShader(g6, vs), fs)

\* ----------------------------------------------------------- RenderObject

\* options.color is a triplet, or << >> when the option is absent.
NoColor == << >>

\* The fields of a RenderObject.  Of the mesh, render reads mesh.indices.length
\* only, and the constructor has uploaded the rest; mMatrix is left out (it
\* feeds uniforms, which no binding and no handle depends on).
RenderObject(id, m, options) ==
  [ id         |-> id,
    options    |-> options,
    indexCount |-> Len(m.indices),
    vao        |-> H("vao", id, "vao"),
    vbo        |-> [ position |-> H("buffer", id, "position"),
                     normal   |-> H("buffer", id, "normal"),
                     color    |-> H("buffer", id, "color") ],
    ebo        |-> H("buffer", id, "ebo") ]

\* The gl calls of the constructor, for the object `this`.
RenderObjectConstructor(g, this, m) ==
  LET g1 == createVertexArray(g, this.vao)
      g2 == createBuffer(g1, this.vbo.position)
      g3 == createBuffer(g2, this.vbo.normal)
      g4 == createBuffer(g3, this.vbo.color)
      g5 == createBuffer(g4, this.ebo)
      g6 == bindVertexArray(g5, this.vao)
      \* position
      g7 == bufferData(bindBuffer(g6, "ARRAY_BUFFER", this.vbo.position),
                       "ARRAY_BUFFER", Len(m.positions))
      g8 == vertexAttribPointer(enableVertexAttribArray(g7, 0), 0)
      \* normal
      g9 == bufferData(bindBuffer(g8, "ARRAY_BUFFER", this.vbo.normal),
                       "ARRAY_BUFFER", Len(m.normals))
      g10 == vertexAttribPointer(enableVertexAttribArray(g9, 1), 1)
      \* color
      g11 == IF this.options.color = NoColor
             THEN vertexAttribPointer(enableVertexAttribArray(
                    bufferData(bindBuffer(g10, "ARRAY_BUFFER", this.vbo.color),
                               "ARRAY_BUFFER", Len(m.colors)), 2), 2)
             ELSE vertexAttrib3fv(disableVertexAttribArray(g10, 2), 2, this.options.color)
      \* index
      g12 == bufferData(bindBuffer(g11, "ELEMENT_ARRAY_BUFFER", this.ebo),
                        "ELEMENT_ARRAY_BUFFER", Len(m.indices))
      \* cleanup
      g13 == bindVertexArray(g12, NullHandle)
  IN  bindBuffer(bindBuffer(g13, "ARRAY_BUFFER", NullHandle),
                 "ELEMENT_ARRAY_BUFFER", NullHandle)

\* RenderObject.render: no draw for an empty index array.
RenderObjectRender(g, this) ==
  IF this.indexCount = 0 THEN g
  ELSE bindVertexArray(drawElements(bindVertexArray(g, this.vao), this.indexCount),
                       NullHandle)

RenderObjectDestroy_leaksColor(g, this) ==
  deleteBuffer(deleteBuffer(deleteBuffer(deleteVertexArray(g, this.vao), this.ebo),
                            this.vbo.position), this.vbo.normal)

\* RenderObject.destroy
RenderObjectDestroy(g, this) ==
  LET g1 == deleteVertexArray(g, this.vao)
      g2 == deleteBuffer(g1, this.ebo)
      g3 == deleteBuffer(g2, this.vbo.position)
      g4 == deleteBuffer(g3, this.vbo.normal)
  IN  deleteBuffer(g4, this.vbo.color)

\* ------------------------------------------------------ offscreen target

setupTexture(g, texture) == texImage2D(bindTexture(g, texture))

\* The body of createFramebuffer up to the definition of capture.
createFramebuffer(g) ==
  LET g1 == glCreateFramebuffer(g, fb.framebuffer)
      g2 == createTexture(createTexture(createTexture(createTexture(g1,
              fb.diffuseBuf), fb.normalBuf), fb.positionBuf), fb.depthBuf)
      g3 == bindFramebuffer(g2, fb.framebuffer)
      g4 == setupTexture(setupTexture(setupTexture(g3,
              fb.diffuseBuf), fb.normalBuf), fb.positionBuf)
      g5 == texImage2D(bindTexture(g4, fb.depthBuf))
      g6 == framebufferTexture2D(framebufferTexture2D(framebufferTexture2D(
              framebufferTexture2D(g5, fb.diffuseBuf), fb.normalBuf),
              fb.positionBuf), fb.depthBuf)
  IN  bindTexture(bindFramebuffer(g6, NullHandle), NullHandle)

captureBegin_oneBuffer(g) == drawBuffers(bindFramebuffer(g, fb.framebuffer), {0})

\* capture, before the callback: bind the framebuffer, select its 3 draw buffers.
captureBegin(g) == drawBuffers(bindFramebuffer(g, fb.framebuffer), {0, 1, 2})

captureEnd_noRebind(g) == g

\* capture, after the callback returned.
captureEnd(g) == bindFramebuffer(g, NullHandle)

\* fb.destroy
fbDestroy(g) ==
  LET g1 == deleteFramebuffer(g, fb.framebuffer)
      g2 == deleteTexture(g1, fb.diffuseBuf)
      g3 == deleteTexture(g2, fb.normalBuf)
      g4 == deleteTexture(g3, fb.positionBuf)
  IN  deleteTexture(g4, fb.depthBuf)

\* ------------------------------------------------------------ frame driver

\* renderGeometry up to objects.forEach.
renderGeometrySetup(g) ==
  LET g1 == enable(enable(g, "DEPTH_TEST"), "CULL_FACE")
      g2 == viewport(g1, 0, 0, width, height)
  IN  useProgram(clear(g2), program)

\* renderTexture(texture, isSingleChannel, useLinear)
renderTexture(g, texture, isSingleChannel, useLinear) ==
  LET g1 == useProgram(g, program2)
      g2 == [g1 EXCEPT !.uIsSingleChannel = isSingleChannel, !.uUseLinear = useLinear]
      g3 == bindTexture(g2, texture)
  IN  bindTexture(drawArrays(g3, 4), NullHandle)

\* render(), from the end of capture to the first debug view: clear the screen.
renderClear(g) ==
  LET g1 == viewport(g, 0, 0, width, height)
      g2 == enable(enable(g1, "DEPTH_TEST"), "CULL_FACE")
  IN  clear(g2)

\* Size of a debug view.
w == (width \div 4) \div 2
h == (w * height) \div width

\* The five textured rectangles of render(), in source order:
\* viewport, texture, isSingleChannel, useLinear.
Views ==
  << [vp |-> <<w * 0, height - h, w, h>>, texture |-> fb.diffuseBuf,
      isSingleChannel |-> FALSE, useLinear |-> FALSE],
     [vp |-> <<w * 1, height - h, w, h>>, texture |-> fb.normalBuf,
      isSingleChannel |-> FALSE, useLinear |-> FALSE],
     [vp |-> <<w * 2, height - h, w, h>>, texture |-> fb.positionBuf,
      isSingleChannel |-> FALSE, useLinear |-> FALSE],
     [vp |-> <<w * 3, height - h, w, h>>, texture |-> fb.depthBuf,
      isSingleChannel |-> TRUE, useLinear |-> FALSE],
     [vp |-> <<0, 0, width, height>>, texture |-> fb.diffuseBuf,
      isSingleChannel |-> FALSE, useLinear |-> FALSE] >>

\* gl.viewport(...) followed by renderTexture(...), for the k-th view.
renderView(g, k) ==
  LET v == Views[k]
  IN  renderTexture(viewport(g, v.vp[1], v.vp[2], v.vp[3], v.vp[4]),
                    v.texture, v.isSingleChannel, v.useLinear)

\* ------------------------------------------------------------ window.onload

\* { color: [0.6, 0.6, 0.6] }
floorColor == <<60, 60, 60>>

\* new RenderObject(...) number k of window.onload: the floor, the box, then
\* the six boxes of the for loop, s being Math.random() * 0.32 of that round.
SetupMesh(k, s) ==
  IF k = 1 THEN createFloorMesh(FloorExtent)
  ELSE IF k = 2 THEN createBoxMesh(BoxExtent)
  ELSE createBoxMesh(s)

SetupOptions(k) == IF k = 1 THEN [color |-> floorColor] ELSE [color |-> NoColor]

\* ------------------------------------------------------------- the host

\* The handle the next requestAnimationFrame call returns.
NextHandle(last) == (last % MaxHandle) + 1

\* cancelAnimationFrame(id): the callback registered as id, if still pending, is dropped.
cancelAnimationFrame(pending, id) == pending \ {id}

\* Positions inside loop(), between stats.begin() and the end of the try block.
InFrame == {"capture", "geometry", "objects", "clear", "views"}

\* --------------------------------------------------------------- actions

\* The page before the load event.
InitProgram ==
  /\ pc = "start"
  /\ gl = NewContext
  /\ objects = << >>
  /\ objIdx = 0
  /\ viewIdx = 0
  /\ request = 0
  /\ pendingCallbacks = {}
  /\ lastHandle = 0
  /\ onbeforeunload = "null"
  /\ errorLog = 0
  /\ uncaught = FALSE
  /\ unloadEvents = 0
  /\ teardownRuns = 0
  /\ prevBound = NullHandle
  /\ cbSteps = 0

Init ==
  /\ InitProgram
  /\ half_extent = 0
  /\ mesh = NoMesh
  /\ built = "none"
  /\ tri = 0

\* window.onload starts: the two programs are created.
Onload ==
  /\ pc = "start"
  /\ gl' = createProgram(createProgram(gl, 1), 2)
  /\ pc' = "construct"
  /\ UNCHANGED <<objects, objIdx, viewIdx, request, pendingCallbacks, lastHandle,
                 onbeforeunload, errorLog, uncaught, unloadEvents, teardownRuns>>
  /\ UNCHANGED <<capVars, meshVars>>

\* window.onload: the next RenderObject is constructed and joins objects.
OnloadConstruct ==
  /\ pc = "construct"
  /\ Len(objects) < 2 + RandomBoxes
  /\ \E s \in 0..MaxRandom :
       LET k == Len(objects) + 1
           m == SetupMesh(k, s)
           this == RenderObject(k, m, SetupOptions(k))
       IN  /\ gl' = RenderObjectConstructor(gl, this, m)
           /\ objects' = Append(objects, this)
  /\ UNCHANGED <<pc, objIdx, viewIdx, request, pendingCallbacks, lastHandle,
                 onbeforeunload, errorLog, uncaught, unloadEvents, teardownRuns>>
  /\ UNCHANGED <<capVars, meshVars>>

\* window.onload ends: the G-buffer is created, the beforeunload handler is
\* installed and the first frame is requested.
OnloadFinish ==
  /\ pc = "construct"
  /\ Len(objects) = 2 + RandomBoxes
  /\ gl' = createFramebuffer(gl)
  /\ onbeforeunload' = "handler"
  /\ request' = NextHandle(lastHandle)
  /\ lastHandle' = NextHandle(lastHandle)
  /\ pendingCallbacks' = pendingCallbacks \cup {NextHandle(lastHandle)}
  /\ pc' = "idle"
  /\ UNCHANGED <<objects, objIdx, viewIdx, errorLog, uncaught, unloadEvents, teardownRuns>>
  /\ UNCHANGED <<capVars, meshVars>>

\* The host fires a pending animation callback: loop() starts, stats.begin().
\* The call log restarts with the frame.
LoopBegin ==
  /\ pc = "idle"
  /\ \E id \in pendingCallbacks : pendingCallbacks' = pendingCallbacks \ {id}
  /\ gl' = [gl EXCEPT !.calls = << >>]
  /\ pc' = "capture"
  /\ UNCHANGED <<objects, objIdx, viewIdx, request, lastHandle, onbeforeunload,
                 errorLog, uncaught, unloadEvents, teardownRuns>>
  /\ UNCHANGED <<capVars, meshVars>>

\* render(): fb.capture is entered.
CaptureBegin ==
  /\ pc = "capture"
  /\ gl' = captureBegin(gl)
  /\ pc' = "geometry"
  /\ UNCHANGED <<objects, objIdx, viewIdx, request, pendingCallbacks, lastHandle,
                 onbeforeunload, errorLog, uncaught, unloadEvents, teardownRuns>>
  /\ UNCHANGED <<capVars, meshVars>>

\* The callback of capture: renderGeometry, up to the forEach.
RenderGeometry ==
  /\ pc = "geometry"
  /\ gl' = renderGeometrySetup(gl)
  /\ objIdx' = 1
  /\ pc' = "objects"
  /\ UNCHANGED <<objects, viewIdx, request, pendingCallbacks, lastHandle,
                 onbeforeunload, errorLog, uncaught, unloadEvents, teardownRuns>>
  /\ UNCHANGED <<capVars, meshVars>>

\* One round of objects.forEach: object.render.
ObjectRender ==
  /\ pc = "objects"
  /\ objIdx <= Len(objects)
  /\ gl' = RenderObjectRender(gl, objects[objIdx])
  /\ objIdx' = objIdx + 1
  /\ UNCHANGED <<pc, objects, viewIdx, request, pendingCallbacks, lastHandle,
                 onbeforeunload, errorLog, uncaught, unloadEvents, teardownRuns>>
  /\ UNCHANGED <<capVars, meshVars>>

\* The callback returned: the rest of capture.
CaptureEnd ==
  /\ pc = "objects"
  /\ objIdx > Len(objects)
  /\ gl' = captureEnd(gl)
  /\ pc' = "clear"
  /\ UNCHANGED <<objects, objIdx, viewIdx, request, pendingCallbacks, lastHandle,
                 onbeforeunload, errorLog, uncaught, unloadEvents, teardownRuns>>
  /\ UNCHANGED <<capVars, meshVars>>

\* render(): the screen is cleared.
RenderClear ==
  /\ pc = "clear"
  /\ gl' = renderClear(gl)
  /\ viewIdx' = 1
  /\ pc' = "views"
  /\ UNCHANGED <<objects, objIdx, request, pendingCallbacks, lastHandle,
                 onbeforeunload, errorLog, uncaught, unloadEvents, teardownRuns>>
  /\ UNCHANGED <<capVars, meshVars>>

\* render(): the next textured rectangle.
RenderView ==
  /\ pc = "views"
  /\ viewIdx <= Len(Views)
  /\ gl' = renderView(gl, viewIdx)
  /\ viewIdx' = viewIdx + 1
  /\ UNCHANGED <<pc, objects, objIdx, request, pendingCallbacks, lastHandle,
                 onbeforeunload, errorLog, uncaught, unloadEvents, teardownRuns>>
  /\ UNCHANGED <<capVars, meshVars>>

LoopEnd_noStore ==
  /\ pc = "views"
  /\ viewIdx > Len(Views)
  /\ lastHandle' = NextHandle(lastHandle)
  /\ pendingCallbacks' = pendingCallbacks \cup {NextHandle(lastHandle)}
  /\ pc' = "idle"
  /\ UNCHANGED <<gl, objects, objIdx, viewIdx, request, onbeforeunload, errorLog,
                 uncaught, unloadEvents, teardownRuns>>
  /\ UNCHANGED <<capVars, meshVars>>

\* loop(): render() returned, stats.end(), request = requestAnimationFrame(loop).
LoopEnd ==
  /\ pc = "views"
  /\ viewIdx > Len(Views)
  /\ request' = NextHandle(lastHandle)
  /\ lastHandle' = NextHandle(lastHandle)
  /\ pendingCallbacks' = pendingCallbacks \cup {NextHandle(lastHandle)}
  /\ pc' = "idle"
  /\ UNCHANGED <<gl, objects, objIdx, viewIdx, onbeforeunload, errorLog,
                 uncaught, unloadEvents, teardownRuns>>
  /\ UNCHANGED <<capVars, meshVars>>

LoopCatch_reschedules ==
  /\ pc \in InFrame
  /\ errorLog' = errorLog + 1
  /\ request' = NextHandle(lastHandle)
  /\ lastHandle' = NextHandle(lastHandle)
  /\ pendingCallbacks' = pendingCallbacks \cup {NextHandle(lastHandle)}
  /\ pc' = "idle"
  /\ UNCHANGED <<gl, objects, objIdx, viewIdx, onbeforeunload,
                 uncaught, unloadEvents, teardownRuns>>
  /\ UNCHANGED <<capVars, meshVars>>

\* loop(): the next call inside the try block throws; catch logs the error
\* and loop() returns.
LoopCatch ==
  /\ pc \in InFrame
  /\ errorLog' = errorLog + 1
  /\ pc' = "idle"
  /\ UNCHANGED <<gl, objects, objIdx, viewIdx, request, pendingCallbacks, lastHandle,
                 onbeforeunload, uncaught, unloadEvents, teardownRuns>>
  /\ UNCHANGED <<capVars, meshVars>>

\* objects.forEach((object) => object.destroy(gl)), from the k-th object on.
RECURSIVE DestroyObjects(_, _, _)
DestroyObjects(g, objs, k) ==
  IF k > Len(objs) THEN g
  ELSE DestroyObjects(RenderObjectDestroy(g, objs[k]), objs, k + 1)

\* The gl calls of the beforeunload handler, after cancelAnimationFrame.
Teardown(g, objs) ==
  deleteProgram(deleteProgram(fbDestroy(DestroyObjects(g, objs, 1)), program), program2)

BeforeUnload_noCancel ==
  /\ pc = "idle"
  /\ onbeforeunload = "handler"
  /\ unloadEvents < MaxUnload
  /\ unloadEvents' = unloadEvents + 1
  /\ pc' = "unloading"
  /\ UNCHANGED <<gl, objects, objIdx, viewIdx, request, pendingCallbacks, lastHandle,
                 onbeforeunload, errorLog, uncaught, teardownRuns>>
  /\ UNCHANGED <<capVars, meshVars>>

\* A beforeunload event while the handler is installed: the handler starts with
\* cancelAnimationFrame(request).  Events are dispatched between tasks only,
\* never inside loop() or window.onload.
BeforeUnload ==
  /\ pc = "idle"
  /\ onbeforeunload = "handler"
  /\ unloadEvents < MaxUnload
  /\ unloadEvents' = unloadEvents + 1
  /\ pendingCallbacks' = cancelAnimationFrame(pendingCallbacks, request)
  /\ pc' = "unloading"
  /\ UNCHANGED <<gl, objects, objIdx, viewIdx, request, lastHandle,
                 onbeforeunload, errorLog, uncaught, teardownRuns>>
  /\ UNCHANGED <<capVars, meshVars>>

\* The rest of the handler: everything is destroyed and the handler removes itself.
UnloadDestroy ==
  /\ pc = "unloading"
  /\ gl' = Teardown(gl, objects)
  /\ onbeforeunload' = "null"
  /\ teardownRuns' = teardownRuns + 1
  /\ pc' = "idle"
  /\ UNCHANGED <<objects, objIdx, viewIdx, request, pendingCallbacks, lastHandle,
                 errorLog, uncaught, unloadEvents>>
  /\ UNCHANGED <<capVars, meshVars>>

\* A beforeunload event while window.onbeforeunload is null: nothing runs.
BeforeUnloadNoHandler ==
  /\ pc \in {"start", "idle"}
  /\ onbeforeunload = "null"
  /\ unloadEvents < MaxUnload
  /\ unloadEvents' = unloadEvents + 1
  /\ UNCHANGED <<pc, gl, objects, objIdx, viewIdx, request, pendingCallbacks, lastHandle,
                 onbeforeunload, errorLog, uncaught, teardownRuns>>
  /\ UNCHANGED <<capVars, meshVars>>

Next ==
  \/ Onload
  \/ OnloadConstruct
  \/ OnloadFinish
  \/ LoopBegin
  \/ CaptureBegin
  \/ RenderGeometry
  \/ ObjectRender
  \/ CaptureEnd
  \/ RenderClear
  \/ RenderView
  \/ LoopEnd
  \/ LoopCatch
  \/ BeforeUnload
  \/ UnloadDestroy
  \/ BeforeUnloadNoHandler

Spec == Init /\ [][Next]_vars

\* A step of a running handler (setup, loop(), the rest of the beforeunload
\* handler), or the host firing a pending animation callback.  pc decides
\* which one, so at most one of them is enabled.
Run ==
  \/ Onload
  \/ OnloadConstruct
  \/ OnloadFinish
  \/ LoopBegin
  \/ CaptureBegin
  \/ RenderGeometry
  \/ ObjectRender
  \/ CaptureEnd
  \/ RenderClear
  \/ RenderView
  \/ LoopEnd
  \/ UnloadDestroy

\* The host eventually fires load and every pending animation callback, and
\* a running handler runs on to its next step.
LiveSpec == Init /\ [][Next]_vars /\ WF_vars(Run)

\* ------------------------------------------- capture, called by any caller

\* What may be bound as the draw target: the default target, the G-buffer,
\* or a framebuffer of the caller.
Targets == {NullHandle, fb.framebuffer} \cup OtherFramebuffers

RECURSIVE CreateOthers(_, _)
CreateOthers(g, k) ==
  IF k > MaxOther THEN g
  ELSE CreateOthers(glCreateFramebuffer(g, H("framebuffer", k, "other")), k + 1)

\* After setup, a caller with framebuffers of its own binds one of the targets.
CallerBinds ==
  /\ pc = "idle"
  /\ \E B \in Targets : gl' = bindFramebuffer(CreateOthers(gl, 1), B)
  /\ pc' = "caller"
  /\ UNCHANGED <<objects, objIdx, viewIdx, request, pendingCallbacks, lastHandle,
                 onbeforeunload, errorLog, uncaught, unloadEvents, teardownRuns>>
  /\ UNCHANGED <<capVars, meshVars>>

\* fb.capture(cb) is called: its part before cb().
CaptureCall ==
  /\ pc = "caller"
  /\ prevBound' = gl.framebuffer
  /\ gl' = captureBegin(gl)
  /\ cbSteps' = 0
  /\ pc' = "cb"
  /\ UNCHANGED <<objects, objIdx, viewIdx, request, pendingCallbacks, lastHandle,
                 onbeforeunload, errorLog, uncaught, unloadEvents, teardownRuns>>
  /\ UNCHANGED meshVars

\* cb() renders one of the objects.
CbDraw ==
  /\ pc = "cb"
  /\ cbSteps < MaxCbSteps
  /\ \E k \in {1, 2} : gl' = RenderObjectRender(gl, objects[k])
  /\ cbSteps' = cbSteps + 1
  /\ UNCHANGED <<pc, objects, objIdx, viewIdx, request, pendingCallbacks, lastHandle,
                 onbeforeunload, errorLog, uncaught, unloadEvents, teardownRuns>>
  /\ UNCHANGED <<prevBound, meshVars>>

\* cb() binds a draw target of its own choice.
CbBind ==
  /\ pc = "cb"
  /\ cbSteps < MaxCbSteps
  /\ \E B \in Targets : gl' = bindFramebuffer(gl, B)
  /\ cbSteps' = cbSteps + 1
  /\ UNCHANGED <<pc, objects, objIdx, viewIdx, request, pendingCallbacks, lastHandle,
                 onbeforeunload, errorLog, uncaught, unloadEvents, teardownRuns>>
  /\ UNCHANGED <<prevBound, meshVars>>

\* cb() returns normally: the rest of capture.
CaptureReturn ==
  /\ pc = "cb"
  /\ gl' = captureEnd(gl)
  /\ pc' = "captured"
  /\ UNCHANGED <<objects, objIdx, viewIdx, request, pendingCallbacks, lastHandle,
                 onbeforeunload, errorLog, uncaught, unloadEvents, teardownRuns>>
  /\ UNCHANGED <<capVars, meshVars>>

NextCapture ==
  \/ Onload
  \/ OnloadConstruct
  \/ OnloadFinish
  \/ CallerBinds
  \/ CaptureCall
  \/ CbDraw
  \/ CbBind
  \/ CaptureReturn

SpecCapture == Init /\ [][NextCapture]_vars

\* ------------------------------------------------- the mesh builders alone

\* The half_extent values the builders are tried on.
Extents == (0 - MaxExtent)..MaxExtent

InitMesh ==
  /\ InitProgram
  /\ half_extent \in Extents
  /\ mesh = NoMesh
  /\ built = "none"
  /\ tri = 0

BuildBox ==
  /\ built = "none"
  /\ mesh' = createBoxMesh(half_extent)
  /\ built' = "box"
  /\ UNCHANGED <<mainVars, capVars, half_extent, tri>>

BuildFloor ==
  /\ built = "none"
  /\ mesh' = createFloorMesh(half_extent)
  /\ built' = "floor"
  /\ UNCHANGED <<mainVars, capVars, half_extent, tri>>

\* An indexed TRIANGLES draw assembles the next triangle of the mesh.
AssembleTriangle ==
  /\ built # "none"
  /\ tri < NumTriangles(mesh)
  /\ tri' = tri + 1
  /\ UNCHANGED <<mainVars, capVars, half_extent, mesh, built>>

NextMesh ==
  \/ BuildBox
  \/ BuildFloor
  \/ AssembleTriangle

SpecMesh == InitMesh /\ [][NextMesh]_vars

\* ================================================================ claims

\* ---- helpers of the claims

\* The entries of the frame's call log made by call `name`.
CallsOf(name) == SelectSeq(gl.calls, LAMBDA c : c.call = name)

\* render() has made its last call and loop() is about to end the frame.
FrameComplete == pc = "views" /\ viewIdx > Len(Views)

\* The buffer handles the constructor of object `this` created.
BuffersOf(this) == {x \in gl.created : x.kind = "buffer" /\ x.owner = this.id}

\* Setup is over.
Loaded == pc \notin {"start", "construct"}

\* ---- C1

\* C1 (as stated): whatever draw target B was bound when capture was called,
\* B is the bound draw target once capture has returned.
C1_RestoresPrevious ==
  pc = "captured" => gl.framebuffer = prevBound

\* C1 (amended): once capture has returned, the default draw target is bound,
\* whatever was bound before and whatever the callback drew or bound; this is
\* the target bound at the call exactly when that one was the default target.
C1_RestoresDefault ==
  pc = "captured" =>
    /\ gl.framebuffer = NullHandle
    /\ (gl.framebuffer = prevBound) <=> (prevBound = NullHandle)

\* capture returned after a callback that drew nothing, called with a
\* framebuffer of the caller bound.
C1_Witness ==
  /\ pc = "captured"
  /\ prevBound \in OtherFramebuffers
  /\ Len(CallsOf("drawElements")) = 0

\* ---- C2

\* C2: an object constructed with a color option has no color buffer handle
\* created for it (3 buffer handles: position, normal, index), its attribute
\* array 2 is disabled and attribute 2 holds the constant color; an object
\* constructed without the option has 4 buffer handles, the color buffer has a
\* data store and attribute array 2 is enabled.
C2_ColorBufferOnlyWithoutOption ==
  \A k \in 1..Len(objects) :
    LET this == objects[k]
    IN  IF this.options.color # NoColor
        THEN /\ this.vbo.color \notin gl.created
             /\ Cardinality(BuffersOf(this)) = 3
             /\ 2 \notin gl.attribEnabled[this.vao]
             /\ gl.attrib2 = this.options.color
        ELSE /\ this.vbo.color \in gl.created
             /\ Cardinality(BuffersOf(this)) = 4
             /\ this.vbo.color \in DOMAIN gl.dataStore
             /\ 2 \in gl.attribEnabled[this.vao]

\* ---- C3

\* C3: when a frame has made all its calls, the calls after the capture are
\* a clear of the default target and then five textured rectangles: diffuse,
\* normal, position and depth in four small viewports side by side along the
\* top edge, then diffuse over the whole screen; the depth view has the
\* single-channel and the linearization flag set, every other view has neither.
C3_CompositeOrder ==
  FrameComplete =>
    LET d == CallsOf("drawArrays")
        n == Len(gl.calls)
    IN  /\ Len(d) = 5
        /\ gl.calls[n - 5].call = "clear"
        /\ gl.calls[n - 5].framebuffer = NullHandle
        /\ \A k \in 1..5 : gl.calls[n - 5 + k] = d[k]
        /\ << d[1].texture, d[2].texture, d[3].texture, d[4].texture, d[5].texture >>
             = << fb.diffuseBuf, fb.normalBuf, fb.positionBuf, fb.depthBuf, fb.diffuseBuf >>
        /\ \A k \in 1..4 :
             /\ d[k].viewport[1] = (k - 1) * d[k].viewport[3]
             /\ d[k].viewport[2] + d[k].viewport[4] = height
             /\ d[k].viewport[3] < width
             /\ d[k].viewport[4] < height
        /\ d[5].viewport = <<0, 0, width, height>>
        /\ d[4].single /\ d[4].linear
        /\ \A k \in {1, 2, 3, 5} : ~d[k].single /\ ~d[k].linear

\* ---- C4

\* C4: once an error was thrown in a frame, it has been logged exactly once
\* and did not leave loop(), no frame is being executed and no animation
\* callback is registered (so no frame is rendered any more), and the
\* beforeunload handler is still installed until it has run.
C4_ErrorHaltsLoop ==
  errorLog > 0 =>
    /\ errorLog = 1
    /\ ~uncaught
    /\ pc \in {"idle", "unloading"}
    /\ pendingCallbacks = {}
    /\ teardownRuns = 0 => onbeforeunload = "handler"
    /\ teardownRuns <= 1

\* A frame threw after some of its draw calls, and the teardown ran afterwards.
C4_Witness ==
  /\ errorLog = 1
  /\ Len(CallsOf("drawElements")) > 0
  /\ teardownRuns = 1

\* ---- C5

\* The handles setup creates: per object a vertex array and 4 buffers, the
\* framebuffer, 4 textures, 2 programs and their 4 shaders.
SetupHandleCount == 5 * (2 + RandomBoxes) + 1 + 4 + 2 + 4

\* C5: no handle is ever deleted twice; the teardown runs at most once however
\* often the unload event fires; and once it has run, every handle setup
\* created (all of them exist by then) has been deleted exactly once.
C5_TeardownDeletesEachOnce ==
  /\ \A x \in gl.created : gl.deleteCalls[x] <= 1
  /\ teardownRuns <= 1
  /\ teardownRuns > 0 =>
       /\ Cardinality(gl.created) = SetupHandleCount
       /\ \A x \in gl.created : gl.deleteCalls[x] = 1

\* The unload event fired twice after the loop had halted on an exception,
\* and the teardown ran.
C5_Witness ==
  /\ teardownRuns = 1
  /\ unloadEvents = 2
  /\ errorLog = 1

\* ---- C6

\* The handles the frame uses: everything setup created but the shaders.
FrameHandles == {x \in gl.created : x.kind # "shader"}

\* C6: while a frame is being executed nothing it uses has been deleted and
\* the teardown has not run; when the handler starts destroying, no animation
\* callback is registered any more and nothing is deleted yet; once anything
\* the frame uses is deleted, the program is between tasks with no animation
\* callback registered, for good.
C6_NoUseAfterDestroy ==
  /\ pc \in InFrame =>
       /\ teardownRuns = 0
       /\ \A x \in FrameHandles : gl.deleteCalls[x] = 0
  /\ pc = "unloading" =>
       /\ pendingCallbacks = {}
       /\ \A x \in FrameHandles : gl.deleteCalls[x] = 0
  /\ (teardownRuns > 0 \/ \E x \in FrameHandles : gl.deleteCalls[x] > 0) =>
       /\ pc = "idle"
       /\ pendingCallbacks = {}

\* The teardown ran while the loop was running: a complete frame had been
\* rendered, no error was thrown, and the callback it had registered is gone.
C6_Witness ==
  /\ teardownRuns = 1
  /\ errorLog = 0
  /\ Len(CallsOf("drawArrays")) = 5
  /\ request = lastHandle
  /\ pendingCallbacks = {}

\* ---- C7

\* A mesh of vertex_count vertices is well formed.
WellFormed(m, vertex_count) ==
  /\ Len(m.positions) = 3 * vertex_count
  /\ Len(m.normals) = 3 * vertex_count
  /\ Len(m.colors) = 3 * vertex_count
  /\ \A k \in 1..Len(m.indices) : m.indices[k] >= 0 /\ m.indices[k] < vertex_count
  /\ Len(m.indices) % 3 = 0

\* C7: for every half_extent the box is a well-formed mesh of 36 vertices with
\* indices 0, 1, ..., 35 in order, and the floor a well-formed mesh of 4
\* vertices with all four normals (0,1,0) and 6 indices.
C7_MeshesWellFormed ==
  /\ built = "box" =>
       /\ WellFormed(mesh, 36)
       /\ mesh.indices = [k \in 1..36 |-> k - 1]
  /\ built = "floor" =>
       /\ WellFormed(mesh, 4)
       /\ Len(mesh.indices) = 6
       /\ \A k \in 0..3 : Triplet(mesh.normals, k) = <<0, 1, 0>>

\* A floor of negative half_extent was built and both its triangles assembled.
C7_Witness ==
  /\ built = "floor"
  /\ half_extent < 0
  /\ tri = NumTriangles(mesh)

\* ---- C8

\* The calls of one complete frame: the clear and one draw per object of the
\* geometry pass, the clear and the five rectangles of the composite pass.
FullFrame ==
  /\ Len(gl.calls) = 2 + Len(objects) + Len(Views)
  /\ Len(CallsOf("drawElements")) = Len(objects)
  /\ Len(CallsOf("drawArrays")) = Len(Views)

\* The loop has stopped: a frame threw, or the beforeunload handler ran.
Stopped == errorLog > 0 \/ teardownRuns > 0

\* C8: at most one animation callback is pending, and it is the one `request`
\* names, the last one registered; a firing consumes the pending callback; a
\* frame that ends without an error has made the calls of exactly one full
\* frame and registers exactly one new callback; and unless the loop is
\* stopped by an error or the teardown, frames begin and complete again and
\* again.
C8_LoopContinues ==
  /\ [](/\ Cardinality(pendingCallbacks) <= 1
        /\ pendingCallbacks \subseteq {request}
        /\ Loaded => request = lastHandle
        /\ pc \in InFrame => pendingCallbacks = {})
  /\ [][(pc = "idle" /\ pc' = "capture") =>
          /\ pendingCallbacks = {request}
          /\ pendingCallbacks' = {}]_vars
  /\ [][(pc = "views" /\ pc' = "idle" /\ errorLog' = errorLog) =>
          /\ FullFrame
          /\ request' # request
          /\ pendingCallbacks' = {request'}]_vars
  /\ \/ []<>(pc = "capture") /\ []<>FrameComplete
     \/ <>Stopped

\* Two frames have completed and the third callback is pending.
C8_Witness ==
  /\ pc = "idle"
  /\ request = 3
  /\ pendingCallbacks = {3}
  /\ FullFrame
  /\ ~Stopped

\* ---- C9

\* The three vertices of triangle t all declare the normal n.
DeclaresNormal(m, t, n) ==
  \A k \in 1..3 : Triplet(m.normals, TriangleIndices(m, t)[k]) = n

\* Vectors a and b point in the same direction.
SameDirection(a, b) == Cross(a, b) = <<0, 0, 0>> /\ Dot(a, b) > 0

\* C9: for half_extent > 0, every triangle of a built mesh has a winding
\* normal in the direction of the normal its three vertices declare; on the
\* box that normal points away from the centre; both floor triangles face +Y.
C9_WindingMatchesNormals ==
  (built # "none" /\ half_extent > 0) =>
    \A t \in 1..NumTriangles(mesh) :
      LET n == Triplet(mesh.normals, TriangleIndices(mesh, t)[1])
      IN  /\ DeclaresNormal(mesh, t, n)
          /\ SameDirection(WindingNormal(mesh, t), n)
          /\ built = "box" => Dot(n, Centroid3(mesh, t)) > 0
          /\ built = "floor" => WindingNormal(mesh, t)[2] > 0

\* A floor of positive half_extent whose second triangle (3,2,1) was assembled.
C9_Witness ==
  /\ built = "floor"
  /\ half_extent > 0
  /\ tri = 2
  /\ TriangleIndices(mesh, 2) = <<3, 2, 1>>

\* ---- C10

\* The textures of the G-buffer.
GBufferTextures == {fb.diffuseBuf, fb.normalBuf, fb.positionBuf, fb.depthBuf}

\* C10: every geometry draw of the frame ran with the G-buffer bound, its 3
\* color attachments selected and no texture bound; every composite draw ran
\* with the default target bound, sampling a G-buffer texture; no draw sampled
\* a texture attached to the target it drew to; outside of frames, unless a
\* frame threw, the default target, no vertex array and no texture are bound.
C10_PassesSeparated ==
  /\ \A k \in 1..Len(gl.calls) :
       LET c == gl.calls[k]
       IN  /\ c.call = "drawElements" =>
                /\ c.framebuffer = fb.framebuffer
                /\ c.drawBuffers = {0, 1, 2}
                /\ c.texture = NullHandle
           /\ c.call = "drawArrays" =>
                /\ c.framebuffer = NullHandle
                /\ c.texture \in GBufferTextures
           /\ c.call # "clear" => c.texture \notin gl.attachments[c.framebuffer]
  /\ (pc = "idle" /\ errorLog = 0) =>
       /\ gl.framebuffer = NullHandle
       /\ gl.vertexArray = NullHandle
       /\ gl.texture = NullHandle

\* A frame has made all its calls: 8 geometry draws and 5 composite draws.
C10_Witness ==
  /\ FrameComplete
  /\ Len(CallsOf("drawElements")) = 2 + RandomBoxes
  /\ Len(CallsOf("drawArrays")) = 5

====
